---- MODULE Spec2Model ----
(***************************************************************************)
(* Database bootstrap handler of gridwalk-infrastructure                   *)
(* (src/lib/gridwalk-infrastructure-stack.ts, lines 107-267) run against   *)
(* a PostgreSQL server and a secret store.  One action per awaited call   *)
(* of the handler; the server's answer to a statement is computed from     *)
(* the server's catalog.                                                   *)
(***************************************************************************)
EXTENDS Integers, Sequences, FiniteSets, TLC

\* ------------------------------------------------------------------ bounds
MaxInvocations == 2
MaxFaults == 1
MaxTables == 1
MaxPuts == 1

\* ------------------------------------------------------- deployed settings
\* Database construct props (databaseName, schemaName) and the usernames the
\* generated secrets carry.
databaseName == "gridwalk"
schemaNameProp == "geo"
masterUsername == "postgres"
readUsername == "read"
gisadminUsername == "gis_admin"
appUsername == "write"

Bundles == {"masterSecret", "readSecret", "gisadminSecret", "appSecret"}
Clients == {"postgresClient", "dbClient", "gisadminClient"}
Undefined == "undefined"
DbNames == {"postgres", databaseName, Undefined}

\* environment: DatabaseInit lambda's environment block
DeployedEnv ==
  [DB_NAME |-> databaseName,
   SCHEMA_NAME |-> schemaNameProp,
   MASTER_SECRET_NAME |-> "MasterSecret",
   DB_READ_SECRET_NAME |-> "ReadSecret",
   DB_GISADMIN_SECRET_NAME |-> "GisadminSecret",
   DB_APP_SECRET_NAME |-> "AppSecret"]

EnvNames == DOMAIN DeployedEnv

\* an environment in which the parameter n is not set: process.env.n is
\* undefined, which a template literal renders as the text "undefined"
EnvWithout(n) == [DeployedEnv EXCEPT ![n] = Undefined]

\* the secret store as deployed: SecretString of each secret, parsed
DeployedSecrets ==
  [MasterSecret |-> [username |-> masterUsername, password |-> "pw_master"],
   ReadSecret |-> [username |-> readUsername, password |-> "pw_read"],
   GisadminSecret |-> [username |-> gisadminUsername, password |-> "pw_gisadmin"],
   AppSecret |-> [username |-> appUsername, password |-> "pw_app"]]

NoSecret == [username |-> Undefined, password |-> Undefined]

\* the value a secret of a role gets when it is replaced: a newly generated
\* password, and for the admin secret a template with another username
NewValue ==
  [ReadSecret |-> [password |-> "pw_read_2"],
   AppSecret |-> [password |-> "pw_app_2"],
   GisadminSecret |-> [password |-> "pw_gisadmin_2", username |-> "gis_owner"]]

\* ------------------------------------------------------------ the handler
\* One record per call of the handler body, in source order.
\*   kind: "secret" | "connect" | "query" | "queryIfAbsent" (inside
\*         if (<var>.rows.length === 0)) | "end" (awaited) |
\*         "endNoAwait" (promise dropped) | "return"
\*   a, b, c: the names interpolated into the statement: "dbName",
\*   "schemaName", a bundle (its username) or a literal
\*   var: the result variable an existence check assigns / a create tests
St(line, kind, cl, op, priv, a, b, c, var) ==
  [line |-> line, kind |-> kind, client |-> cl, op |-> op, priv |-> priv,
   a |-> a, b |-> b, c |-> c, var |-> var]

GetSecretValue(line, bundle, envName) ==
  St(line, "secret", "", envName, "", bundle, "", "", "")
ClientConnect(line, cl, db, bundle) ==
  St(line, "connect", cl, "CONNECT", "", db, bundle, "", "")
Query(line, cl, op, priv, a, b, c) ==
  St(line, "query", cl, op, priv, a, b, c, "")
ExistsQuery(line, cl, op, a, var) ==
  St(line, "query", cl, op, "", a, "", "", var)
QueryIfAbsent(line, cl, op, a, var) ==
  St(line, "queryIfAbsent", cl, op, "", a, "", "", var)
ClientEnd(line, kind, cl) ==
  St(line, kind, cl, "END", "", "", "", "", "")

Program ==
  << GetSecretValue(129, "masterSecret", "MASTER_SECRET_NAME"),
     GetSecretValue(134, "readSecret", "DB_READ_SECRET_NAME"),
     GetSecretValue(139, "gisadminSecret", "DB_GISADMIN_SECRET_NAME"),
     GetSecretValue(144, "appSecret", "DB_APP_SECRET_NAME"),
     ClientConnect(158, "postgresClient", "postgres", "masterSecret"),
     ExistsQuery(160, "postgresClient", "DB_EXISTS", "dbName", "dbExistsResult"),
     QueryIfAbsent(162, "postgresClient", "CREATE_DATABASE", "dbName", "dbExistsResult"),
     ClientEnd(164, "end", "postgresClient"),
     ClientConnect(177, "dbClient", "dbName", "masterSecret"),
     Query(178, "dbClient", "CREATE_SCHEMA_IF_NOT_EXISTS", "", "schemaName", "", ""),
     Query(179, "dbClient", "SET_SEARCH_PATH", "", "dbName", "schemaName", ""),
     \* db app user
     ExistsQuery(182, "dbClient", "ROLE_EXISTS", "appSecret", "appUserExistsResult"),
     QueryIfAbsent(185, "dbClient", "CREATE_USER", "appSecret", "appUserExistsResult"),
     Query(187, "dbClient", "GRANT_ON_DATABASE", "CONNECT", "dbName", "appSecret", ""),
     Query(188, "dbClient", "GRANT_ON_SCHEMA", "USAGE", "schemaName", "appSecret", ""),
     Query(189, "dbClient", "GRANT_ON_SCHEMA", "CREATE", "schemaName", "appSecret", ""),
     Query(190, "dbClient", "ALTER_DEFAULT_PRIVILEGES", "INSERT,UPDATE,DELETE", "schemaName", "appSecret", ""),
     \* read only user
     ExistsQuery(193, "dbClient", "ROLE_EXISTS", "readSecret", "readUserExistsResult"),
     QueryIfAbsent(196, "dbClient", "CREATE_USER", "readSecret", "readUserExistsResult"),
     Query(198, "dbClient", "GRANT_ON_DATABASE", "CONNECT", "dbName", "readSecret", ""),
     Query(199, "dbClient", "GRANT_ON_SCHEMA", "USAGE", "schemaName", "readSecret", ""),
     Query(200, "dbClient", "GRANT_ON_ALL_TABLES", "SELECT", "schemaName", "readSecret", ""),
     Query(201, "dbClient", "ALTER_DEFAULT_PRIVILEGES", "SELECT", "schemaName", "readSecret", ""),
     \* gis admin user
     ExistsQuery(204, "dbClient", "ROLE_EXISTS", "gisadminSecret", "gisadminUserExistsResult"),
     QueryIfAbsent(206, "dbClient", "CREATE_USER", "gisadminSecret", "gisadminUserExistsResult"),
     Query(208, "dbClient", "GRANT_ON_DATABASE", "CONNECT", "dbName", "gisadminSecret", ""),
     Query(209, "dbClient", "GRANT_ON_SCHEMA", "USAGE", "schemaName", "gisadminSecret", ""),
     Query(210, "dbClient", "GRANT_ON_SCHEMA", "USAGE", "public", "gisadminSecret", ""),
     Query(211, "dbClient", "GRANT_ON_ALL_TABLES", "SELECT", "schemaName", "gisadminSecret", ""),
     Query(212, "dbClient", "GRANT_ROLE", "", "rds_superuser", "gisadminSecret", ""),
     Query(213, "dbClient", "GRANT_ON_DATABASE", "ALL", "dbName", "gisadminSecret", ""),
     \* root user may grant access to tables created using app user
     Query(216, "dbClient", "GRANT_ROLE", "", "appSecret", "masterSecret", ""),
     Query(217, "dbClient", "ALTER_DEFAULT_PRIVILEGES", "SELECT", "schemaName", "readSecret", "appSecret"),
     ClientEnd(219, "endNoAwait", "dbClient"),
     ClientConnect(232, "gisadminClient", "dbName", "gisadminSecret"),
     Query(234, "gisadminClient", "CREATE_EXTENSION_IF_NOT_EXISTS", "", "postgis", "", ""),
     Query(235, "gisadminClient", "CREATE_EXTENSION_IF_NOT_EXISTS", "", "postgis_raster", "", ""),
     Query(236, "gisadminClient", "CREATE_EXTENSION_IF_NOT_EXISTS", "", "fuzzystrmatch", "", ""),
     Query(237, "gisadminClient", "CREATE_EXTENSION_IF_NOT_EXISTS", "", "postgis_topology", "", ""),
     Query(238, "gisadminClient", "CREATE_EXTENSION_IF_NOT_EXISTS", "", "hstore", "", ""),
     Query(240, "gisadminClient", "ALTER_SCHEMA_OWNER", "", "topology", "gisadminSecret", ""),
     Query(242, "gisadminClient", "CREATE_OR_REPLACE_FUNCTION", "", "exec", "", ""),
     Query(244, "gisadminClient", "ALTER_TABLES_OWNER", "", "topology", "gis_admin", ""),
     ClientEnd(252, "return", "gisadminClient") >>

NumSteps == Len(Program)
CatchPc == NumSteps + 1
DonePc == NumSteps + 2

Extensions == {"postgis", "postgis_raster", "fuzzystrmatch", "postgis_topology", "hstore"}

SuccessResult == [statusCode |-> 200, body |-> "Schema and user created successfully"]
FailureResult == [statusCode |-> 500, body |-> "Error creating schema and user"]
NoResult == [statusCode |-> 0, body |-> ""]

\* ------------------------------------------------------------------- state
\* execution environments of the function; the deployment trigger invokes
\* the function in one of them
Handlers == {1}

\* all execution environments: a second one serves an invocation that arrives
\* while the first is busy
Environments == {1, 2}

VARIABLES
  env,          \* process.env of the function
  secretStore,  \* secret name -> parsed SecretString
  server,       \* catalog of the PostgreSQL server
  invocations,  \* number of invocations started so far
  pc,           \* per handler: 0 idle, 1..NumSteps next call, CatchPc, DonePc
  secrets,      \* per handler: masterSecret, readSecret, gisadminSecret, appSecret
  rows,         \* per handler: rows.length of the *ExistsResult variables
  client,       \* per handler: state of postgresClient, dbClient, gisadminClient
  result,       \* per handler: what the running or last invocation returned
  errors,       \* per handler: steps of the invocation whose call raised
  injected,     \* per handler: steps at which the environment made the call fail
  unhandled,    \* per handler: steps whose rejection no one handled
  issued,       \* per handler: steps of the invocation whose call was made
  started,      \* per handler: the catalog when the invocation started
  last,         \* summary of the invocation that returned last
  prev,         \* summary of the invocation that had returned last when the
                \* running or last invocation started
  faultsLeft,   \* faults the environment may still inject
  request,      \* the request the load balancer's listener is evaluating
  routed,       \* the action the listener took for the request
  containers,   \* Martin task: status and exit code of each container
  volume,       \* Martin task: files of the shared volume 'config'
  bucket,       \* keys of the objects of the config bucket
  tasks,        \* number of tasks the Martin service has launched
  tileCalls     \* the last two calls of a tile function, with the view each selected

\* the state of the database initialiser and of the server and secrets
handlerVars == <<env, secretStore, server, invocations, pc, secrets, rows, client,
                 result, errors, injected, unhandled, issued, started, last, prev,
                 faultsLeft>>

\* the state of the load balancer, the Martin task and the tile functions
listenerVars == <<request, routed>>
taskVars == <<containers, volume, bucket, tasks>>
tileVars == <<tileCalls>>
constructVars == <<listenerVars, taskVars, tileVars>>

vars == <<handlerVars, constructVars>>

ResultVars == {"dbExistsResult", "appUserExistsResult", "readUserExistsResult",
               "gisadminUserExistsResult"}

\* --------------------------------------------------------------- the server
\* The catalog of a server that has only its administrative database, the
\* master role and the platform's rds_superuser role.
FreshServer ==
  [databases |-> {"postgres"},
   schemas |-> {},          \* <<database, schema>>; public exists everywhere
   searchPath |-> [d \in DbNames |-> <<"public">>],
   roles |-> {<<masterUsername, "pw_master">>, <<"rds_superuser", "">>},
   grants |-> {},           \* <<privilege, kind, database, object, grantee>>
   defaults |-> {},         \* <<creating role, database, schema, privilege, grantee>>
   extensions |-> {},       \* <<database, extension>>
   relations |-> {},        \* <<database, schema, relation, owner>>
   schemaOwner |-> {},      \* <<database, schema, owner>>
   functions |-> {},        \* <<database, schema, function>>
   acl |-> {}]              \* <<database, schema, relation, privilege, grantee>>

\* The instance is created with databaseName set, so the deployed server
\* starts with the target database present.
RdsServer == [FreshServer EXCEPT !.databases = {"postgres", databaseName}]

NoSnap == [FreshServer EXCEPT !.databases = {}, !.roles = {}]

RoleExists(srv, r) == \E x \in srv.roles : x[1] = r
SchemaExists(srv, db, s) == s = "public" \/ <<db, s>> \in srv.schemas

\* the schema new objects go to: the first schema of the search path that exists
CreationSchema(srv, db) ==
  LET p == srv.searchPath[db]
  IN IF SchemaExists(srv, db, p[1]) THEN p[1] ELSE "public"

TopologyRelations == {"topology", "layer", "topology_id_seq"}

\* role u is the role g or a member of it (GRANT g TO u)
Member(srv, u, g) == u = g \/ <<"MEMBER", "role", "", g, u>> \in srv.grants

\* the privileges a privilege list names
Privs(p) ==
  CASE p = "INSERT,UPDATE,DELETE" -> {"INSERT", "UPDATE", "DELETE"}
    [] OTHER -> {p}

\* the relations of a schema on which role u may grant privileges: those it
\* owns, itself or through a role it is a member of
Grantable(srv, u, db, schema) ==
  {r \in srv.relations : r[1] = db /\ r[2] = schema /\ Member(srv, u, r[4])}

\* role u holds privilege p on the schema: as its owner or by a grant, itself
\* or through a role it is a member of
HasSchemaPriv(srv, u, db, schema, p) ==
  \/ \E o \in srv.schemaOwner : o[1] = db /\ o[2] = schema /\ Member(srv, u, o[3])
  \/ \E g \in srv.grants :
       /\ g[1] = p /\ g[2] = "schema" /\ g[3] = db /\ g[4] = schema
       /\ Member(srv, u, g[5])

\* role u holds privilege p on the relation: as its owner or by an entry of
\* the relation's access control list
HasTablePriv(srv, u, db, schema, rel, p) ==
  \/ \E r \in srv.relations :
       r[1] = db /\ r[2] = schema /\ r[3] = rel /\ Member(srv, u, r[4])
  \/ \E a \in srv.acl :
       /\ a[1] = db /\ a[2] = schema /\ a[3] = rel
       /\ p \in Privs(a[4]) /\ Member(srv, u, a[5])

\* role u has been granted the right to connect to the database
HasConnect(srv, u, db) ==
  /\ db \in srv.databases
  /\ RoleExists(srv, u)
  /\ \E g \in srv.grants :
       /\ g[1] \in {"CONNECT", "ALL"} /\ g[2] = "database" /\ g[3] = db
       /\ Member(srv, u, g[5])

\* the catalog after role u has created the table rel in the schema: u owns
\* it, and it carries the default privileges recorded for tables u creates
TableCreated(srv, u, db, schema, rel) ==
  [srv EXCEPT !.relations = @ \cup {<<db, schema, rel, u>>},
              !.acl = @ \cup {<<db, schema, rel, d[4], d[5]>> :
                                d \in {x \in srv.defaults :
                                         x[1] = u /\ x[2] = db /\ x[3] = schema}}]

\* variant: the server has no uniqueness constraint on names
NameFreeAlways(srv, op, A) == TRUE

\* the uniqueness constraint of the catalog: no database, no role of that name
NameFree(srv, op, A) ==
  CASE op = "CREATE_DATABASE" -> A \notin srv.databases
    [] op = "CREATE_USER" -> ~RoleExists(srv, A)
    [] OTHER -> TRUE

\* Does the server accept the statement?  sess = [db, user] of the connection.
StmtOk(srv, sess, op, A, B, C) ==
  CASE op = "DB_EXISTS" -> TRUE
    [] op = "CREATE_DATABASE" -> NameFree(srv, op, A)
    [] op = "CREATE_SCHEMA_IF_NOT_EXISTS" -> TRUE
    [] op = "SET_SEARCH_PATH" -> A \in srv.databases
    [] op = "ROLE_EXISTS" -> TRUE
    [] op = "CREATE_USER" -> NameFree(srv, op, A)
    [] op = "GRANT_ON_DATABASE" -> A \in srv.databases /\ RoleExists(srv, B)
    [] op = "GRANT_ON_SCHEMA" -> SchemaExists(srv, sess.db, A) /\ RoleExists(srv, B)
    [] op = "GRANT_ON_ALL_TABLES" -> SchemaExists(srv, sess.db, A) /\ RoleExists(srv, B)
    [] op = "ALTER_DEFAULT_PRIVILEGES" ->
         /\ SchemaExists(srv, sess.db, A)
         /\ RoleExists(srv, B)
         /\ (C # "" => RoleExists(srv, C))
    [] op = "GRANT_ROLE" -> RoleExists(srv, A) /\ RoleExists(srv, B)
    [] op = "CREATE_EXTENSION_IF_NOT_EXISTS" ->
         (A \in {"postgis_raster", "postgis_topology"}
            => <<sess.db, "postgis">> \in srv.extensions)
    [] op = "ALTER_SCHEMA_OWNER" -> <<sess.db, A>> \in srv.schemas /\ RoleExists(srv, B)
    [] op = "CREATE_OR_REPLACE_FUNCTION" -> TRUE
    [] op = "ALTER_TABLES_OWNER" ->
         (\E r \in srv.relations : r[1] = sess.db /\ r[2] = A) => RoleExists(srv, B)
    [] OTHER -> FALSE

\* variant: the existence checks never find a row
StmtRowsNone(srv, sess, op, A) == 0

\* rows.length of the result
StmtRows(srv, sess, op, A) ==
  CASE op = "DB_EXISTS" -> IF A \in srv.databases THEN 1 ELSE 0
    [] op = "ROLE_EXISTS" -> IF RoleExists(srv, A) THEN 1 ELSE 0
    [] OTHER -> 0

\* variant: FOR USER is left out of every ALTER DEFAULT PRIVILEGES
DefaultsForCurrent(sess, C) == sess.user

\* the role whose future tables ALTER DEFAULT PRIVILEGES is about: the one
\* FOR USER names, the current role without FOR USER
DefaultsFor(sess, C) == IF C = "" THEN sess.user ELSE C

\* variant: public is put in front of the schema
SearchPathPublicFirst(schema) == <<"public", schema>>

\* the path of "SET search_path TO <schema>, public"
SearchPath(schema) == <<schema, "public">>

\* The catalog after an accepted statement.
StmtEffect(srv, sess, op, priv, A, B, C, pw) ==
  CASE op = "CREATE_DATABASE" -> [srv EXCEPT !.databases = @ \cup {A}]
    [] op = "CREATE_SCHEMA_IF_NOT_EXISTS" ->
         IF <<sess.db, A>> \in srv.schemas THEN srv
         ELSE [srv EXCEPT !.schemas = @ \cup {<<sess.db, A>>},
                          !.schemaOwner = @ \cup {<<sess.db, A, sess.user>>}]
    [] op = "SET_SEARCH_PATH" -> [srv EXCEPT !.searchPath[A] = SearchPath(B)]
    [] op = "CREATE_USER" -> [srv EXCEPT !.roles = @ \cup {<<A, pw>>}]
    [] op = "GRANT_ON_DATABASE" ->
         [srv EXCEPT !.grants = @ \cup {<<priv, "database", A, "", B>>}]
    [] op = "GRANT_ON_SCHEMA" ->
         [srv EXCEPT !.grants = @ \cup {<<priv, "schema", sess.db, A, B>>}]
    [] op = "GRANT_ON_ALL_TABLES" ->
         [srv EXCEPT !.grants = @ \cup {<<priv, "tables", sess.db, A, B>>},
                     !.acl = @ \cup {<<r[1], r[2], r[3], priv, B>> :
                                       r \in Grantable(srv, sess.user, sess.db, A)}]
    [] op = "ALTER_DEFAULT_PRIVILEGES" ->
         [srv EXCEPT !.defaults =
            @ \cup {<<DefaultsFor(sess, C), sess.db, A, priv, B>>}]
    [] op = "GRANT_ROLE" ->
         [srv EXCEPT !.grants = @ \cup {<<"MEMBER", "role", "", A, B>>}]
    [] op = "CREATE_EXTENSION_IF_NOT_EXISTS" ->
         IF <<sess.db, A>> \in srv.extensions THEN srv
         ELSE IF A = "postgis_topology"
         THEN [srv EXCEPT !.extensions = @ \cup {<<sess.db, A>>},
                          !.schemas = @ \cup {<<sess.db, "topology">>},
                          !.schemaOwner = @ \cup {<<sess.db, "topology", sess.user>>},
                          !.relations = @ \cup {<<sess.db, "topology", r, sess.user>> :
                                                  r \in TopologyRelations}]
         ELSE [srv EXCEPT !.extensions = @ \cup {<<sess.db, A>>}]
    [] op = "ALTER_SCHEMA_OWNER" ->
         [srv EXCEPT !.schemaOwner =
            {o \in @ : ~(o[1] = sess.db /\ o[2] = A)} \cup {<<sess.db, A, B>>}]
    [] op = "CREATE_OR_REPLACE_FUNCTION" ->
         [srv EXCEPT !.functions = @ \cup {<<sess.db, CreationSchema(srv, sess.db), A>>}]
    [] op = "ALTER_TABLES_OWNER" ->
         [srv EXCEPT !.relations =
            {IF r[1] = sess.db /\ r[2] = A THEN <<r[1], r[2], r[3], B>> ELSE r : r \in @}]
    [] OTHER -> srv

\* the parameter group of the instance: log_statement
log_statement == "ddl"

\* the statements the server writes to its log, by the value of log_statement;
\* the existence checks and the SELECT exec(..) are queries, the others
\* define or alter objects
Logged(level, op) ==
  CASE level = "all" -> TRUE
    [] level = "ddl" -> op \notin {"DB_EXISTS", "ROLE_EXISTS", "ALTER_TABLES_OWNER"}
    [] OTHER -> FALSE

\* Does the server accept a connection to db as user with password pw?
ConnectOk(srv, db, user, pw) == db \in srv.databases /\ <<user, pw>> \in srv.roles

\* ------------------------------------------------------- handler internals
\* the text a template literal interpolates for a symbolic name
Name(i, sym) ==
  CASE sym = "dbName" -> env.DB_NAME
    [] sym = "schemaName" -> env.SCHEMA_NAME
    [] sym \in Bundles -> secrets[i][sym].username
    [] OTHER -> sym

\* the step that connects client c, and the step that ends it
ConnectStep ==
  [c \in Clients |->
     CHOOSE k \in 1..NumSteps : Program[k].kind = "connect" /\ Program[k].client = c]
EndStep ==
  [c \in Clients |->
     CHOOSE k \in 1..NumSteps : Program[k].op = "END" /\ Program[k].client = c]

\* variant: every connection is built with the master bundle
SessionAsMaster(i, c) ==
  LET st == Program[ConnectStep[c]]
  IN [db |-> Name(i, st.a), user |-> secrets[i]["masterSecret"].username]

\* database and user of the connection client c of invocation i was built with
Session(i, c) ==
  LET st == Program[ConnectStep[c]]
  IN [db |-> Name(i, st.a), user |-> secrets[i][st.b].username]

\* variant: every role is created with the password of the master bundle
PasswordOfMaster(i, sym) == secrets[i]["masterSecret"].password

\* the password a statement carries: that of the bundle it names
PasswordOf(i, sym) == IF sym \in Bundles THEN secrets[i][sym].password ELSE ""

\* variant: the lookup of a secret is wrapped in a try of its own that
\* swallows the error, and the handler goes on to the next call
AfterErrorSwallowSecret(k) == IF Program[k].kind = "secret" THEN k + 1 ELSE CatchPc

\* variant: a call that raised is made again
AfterErrorRetry(k) == k

\* where control goes when the call of step k raises inside the try block
AfterError(k) == CatchPc

\* variant: the create is not guarded by the existence check
IfAbsentAlways(i, st) == TRUE

\* variant: the guard of the read role tests the result of the app role's check
IfAbsentCopyPaste(i, st) ==
  IF st.var = "readUserExistsResult"
  THEN rows[i]["appUserExistsResult"] = 0
  ELSE rows[i][st.var] = 0

\* variant: only the creation of the database is guarded
IfAbsentDatabaseOnly(i, st) == st.var = "dbExistsResult" => rows[i][st.var] = 0

\* if (<var>.rows.length === 0)
IfAbsent(i, st) == rows[i][st.var] = 0

\* a close is in flight: end() was called and has neither resolved nor rejected
Pending(i) == \E c \in Clients : client[i][c] = "ending"

Cur(i) == Program[pc[i]]
AtStep(i, kind) == pc[i] \in 1..NumSteps /\ Program[pc[i]].kind = kind

\* bookkeeping shared by the calls: the call of step k was made and returned
\* (ok) or raised; fail says that the environment made it fail
Called(i, k, ok, fail) ==
  /\ issued' = [issued EXCEPT ![i] = @ \cup {k}]
  /\ errors' = IF ok THEN errors ELSE [errors EXCEPT ![i] = @ \cup {k}]
  /\ injected' = IF fail THEN [injected EXCEPT ![i] = @ \cup {k}] ELSE injected
  /\ faultsLeft' = IF fail THEN faultsLeft - 1 ELSE faultsLeft
  /\ pc' = [pc EXCEPT ![i] = IF ok THEN k + 1 ELSE AfterError(k)]

MayFail(fail) == fail => faultsLeft > 0

\* ---------------------------------------------------------------- actions
\* what is recorded of an invocation when it returns
Summary(h, res) ==
  [n |-> invocations, statusCode |-> res.statusCode, clean |-> injected[h] = {},
   start |-> started[h], snap |-> server']

NoSummary ==
  [n |-> 0, statusCode |-> 0, clean |-> TRUE, start |-> NoSnap, snap |-> NoSnap]

Idle(h) == pc[h] \in {0, DonePc} /\ ~Pending(h)

\* the handler is entered: its locals start afresh
Start(h) ==
  /\ invocations' = invocations + 1
  /\ pc' = [pc EXCEPT ![h] = 1]
  /\ secrets' = [secrets EXCEPT ![h] = [b \in Bundles |-> NoSecret]]
  /\ rows' = [rows EXCEPT ![h] = [v \in ResultVars |-> -1]]
  /\ client' = [client EXCEPT ![h] = [c \in Clients |-> "new"]]
  /\ result' = [result EXCEPT ![h] = NoResult]
  /\ errors' = [errors EXCEPT ![h] = {}]
  /\ injected' = [injected EXCEPT ![h] = {}]
  /\ unhandled' = [unhandled EXCEPT ![h] = {}]
  /\ issued' = [issued EXCEPT ![h] = {}]
  /\ started' = [started EXCEPT ![h] = server]
  /\ prev' = last
  /\ UNCHANGED <<env, secretStore, server, last, faultsLeft>>
  /\ UNCHANGED constructVars

\* The deployment trigger invokes the function: invocations follow one
\* another, each after the previous one returned and its closes settled.
\* The handler's locals start afresh.
Invoke(h) ==
  /\ invocations < MaxInvocations
  /\ \A g \in Handlers : Idle(g)
  /\ Start(h)

\* The function is invoked in the next environment that has served no
\* invocation, whatever the invocations in the other environments are doing.
InvokeConcurrently(h) ==
  /\ pc[h] = 0
  /\ \A g \in Environments : g < h => pc[g] # 0
  /\ Start(h)

\* await secretsManager.send(new GetSecretValueCommand(..)); JSON.parse(..)
GetSecret(i) ==
  /\ AtStep(i, "secret")
  /\ \E fail \in BOOLEAN :
       LET st == Cur(i)
           id == env[st.op]
           ok == ~fail /\ id \in DOMAIN secretStore
       IN /\ MayFail(fail)
          /\ secrets' = IF ok THEN [secrets EXCEPT ![i][st.a] = secretStore[id]]
                        ELSE secrets
          /\ Called(i, pc[i], ok, fail)
  /\ UNCHANGED <<env, secretStore, server, invocations, rows, client, result,
                 unhandled, started, last, prev>>
  /\ UNCHANGED constructVars

\* new Client({..}); await <client>.connect()
Connect(i) ==
  /\ AtStep(i, "connect")
  /\ \E fail \in BOOLEAN :
       LET st == Cur(i)
           ok == ~fail /\ ConnectOk(server, Name(i, st.a), secrets[i][st.b].username,
                                    secrets[i][st.b].password)
       IN /\ MayFail(fail)
          /\ client' = IF ok THEN [client EXCEPT ![i][st.client] = "open"] ELSE client
          /\ Called(i, pc[i], ok, fail)
  /\ UNCHANGED <<env, secretStore, server, invocations, secrets, rows, result,
                 unhandled, started, last, prev>>
  /\ UNCHANGED constructVars

\* await <client>.query(..), with the assignment of an *ExistsResult
QueryCall(i, st) ==
  \E fail \in BOOLEAN :
    LET sess == Session(i, st.client)
        A == Name(i, st.a)
        B == Name(i, st.b)
        C == Name(i, st.c)
        ok == ~fail /\ client[i][st.client] = "open"
                    /\ StmtOk(server, sess, st.op, A, B, C)
    IN /\ MayFail(fail)
       /\ server' = IF ok
                    THEN StmtEffect(server, sess, st.op, st.priv, A, B, C,
                                    PasswordOf(i, st.a))
                    ELSE server
       /\ rows' = IF ok /\ st.var # ""
                  THEN [rows EXCEPT ![i][st.var] = StmtRows(server, sess, st.op, A)]
                  ELSE rows
       /\ Called(i, pc[i], ok, fail)

Query_(i) ==
  /\ AtStep(i, "query")
  /\ QueryCall(i, Cur(i))
  /\ UNCHANGED <<env, secretStore, invocations, secrets, client, result, unhandled,
                 started, last, prev>>
  /\ UNCHANGED constructVars

\* if (<var>.rows.length === 0) { await <client>.query(`CREATE ..`) }
QueryIfAbsent_(i) ==
  /\ AtStep(i, "queryIfAbsent")
  /\ IF IfAbsent(i, Cur(i))
     THEN QueryCall(i, [Cur(i) EXCEPT !.var = ""])
     ELSE /\ pc' = [pc EXCEPT ![i] = @ + 1]
          /\ UNCHANGED <<server, rows, errors, injected, issued, faultsLeft>>
  /\ UNCHANGED <<env, secretStore, invocations, secrets, client, result, unhandled,
                 started, last, prev>>
  /\ UNCHANGED constructVars

\* await postgresClient.end()
End(i) ==
  /\ AtStep(i, "end")
  /\ \E fail \in BOOLEAN :
       /\ MayFail(fail)
       /\ client' = [client EXCEPT ![i][Cur(i).client] =
                       IF fail THEN "endFailed" ELSE "ended"]
       /\ Called(i, pc[i], ~fail, fail)
  /\ UNCHANGED <<env, secretStore, server, invocations, secrets, rows, result,
                 unhandled, started, last, prev>>
  /\ UNCHANGED constructVars

\* dbClient.end();  the promise is dropped and the handler goes on
EndNoAwait(i) ==
  /\ AtStep(i, "endNoAwait")
  /\ client' = [client EXCEPT ![i][Cur(i).client] = "ending"]
  /\ Called(i, pc[i], TRUE, FALSE)
  /\ UNCHANGED <<env, secretStore, server, invocations, secrets, rows, result,
                 unhandled, started, last, prev>>
  /\ UNCHANGED constructVars

\* the close started by a dropped end() resolves or rejects, at any later time
EndCompletes(i, c) ==
  /\ client[i][c] = "ending"
  /\ \E fail \in BOOLEAN :
       /\ MayFail(fail)
       /\ client' = [client EXCEPT ![i][c] = IF fail THEN "endFailed" ELSE "ended"]
       /\ errors' = IF fail THEN [errors EXCEPT ![i] = @ \cup {EndStep[c]}] ELSE errors
       /\ injected' = IF fail THEN [injected EXCEPT ![i] = @ \cup {EndStep[c]}] ELSE injected
       /\ unhandled' = IF fail THEN [unhandled EXCEPT ![i] = @ \cup {EndStep[c]}]
                       ELSE unhandled
       /\ faultsLeft' = IF fail THEN faultsLeft - 1 ELSE faultsLeft
  /\ UNCHANGED <<env, secretStore, server, invocations, pc, secrets, rows, result,
                 issued, started, last, prev>>
  /\ UNCHANGED constructVars

\* the handler's promise settles with res
Return(i, res) ==
  /\ result' = [result EXCEPT ![i] = res]
  /\ last' = Summary(i, res)
  /\ pc' = [pc EXCEPT ![i] = DonePc]

\* gisadminClient.end(); return { statusCode: 200, .. }
ReturnSuccess(i) ==
  /\ AtStep(i, "return")
  /\ client' = [client EXCEPT ![i][Cur(i).client] = "ending"]
  /\ issued' = [issued EXCEPT ![i] = @ \cup {pc[i]}]
  /\ server' = server
  /\ Return(i, SuccessResult)
  /\ UNCHANGED <<env, secretStore, invocations, secrets, rows, errors,
                 injected, unhandled, started, prev, faultsLeft>>
  /\ UNCHANGED constructVars

\* variant: the catch block undoes the schema it may have created
CatchRollback(srv) ==
  [srv EXCEPT !.schemas = {x \in @ : x # <<env.DB_NAME, env.SCHEMA_NAME>>}]

\* the statements the catch block sends to the server: none
CatchEffect(srv) == srv

\* catch (error) { console.error(..); return { statusCode: 500, .. } }
Catch(i) ==
  /\ pc[i] = CatchPc
  /\ server' = CatchEffect(server)
  /\ Return(i, FailureResult)
  /\ UNCHANGED <<env, secretStore, invocations, secrets, rows, client,
                 errors, injected, unhandled, issued, started, prev, faultsLeft>>
  /\ UNCHANGED constructVars

\* one step of the handler: the call it is waiting for returns or raises, or
\* the handler returns
HandlerStep(i) ==
  \/ GetSecret(i)
  \/ Connect(i)
  \/ Query_(i)
  \/ QueryIfAbsent_(i)
  \/ End(i)
  \/ EndNoAwait(i)
  \/ ReturnSuccess(i)
  \/ Catch(i)

\* names of the tables the users of the database create, in order of creation
TableNames == <<"t1", "t2", "t3", "t4">>

\* the tables of the target schema
Tables(srv) == {r \in srv.relations : r[1] = env.DB_NAME /\ r[2] = env.SCHEMA_NAME}

\* After a successful invocation a role of one of the bundles, connected to
\* the target database, creates a table in the target schema; the server
\* accepts it from a role that holds CREATE on the schema.
CreateTable(u) ==
  /\ \A g \in Handlers : Idle(g)
  /\ last.statusCode = SuccessResult.statusCode
  /\ Cardinality(Tables(server)) < MaxTables
  /\ Cardinality(Tables(server)) < Len(TableNames)
  /\ env.DB_NAME \in server.databases
  /\ RoleExists(server, u)
  /\ HasSchemaPriv(server, u, env.DB_NAME, env.SCHEMA_NAME, "CREATE")
  /\ server' = TableCreated(server, u, env.DB_NAME, env.SCHEMA_NAME,
                            TableNames[Cardinality(Tables(server)) + 1])
  /\ UNCHANGED <<env, secretStore, invocations, pc, secrets, rows, client, result,
                 errors, injected, unhandled, issued, started, last, prev, faultsLeft>>
  /\ UNCHANGED constructVars

\* the fields of the secret store that no longer have their deployed value
Replaced(store) ==
  {x \in (DOMAIN store) \X {"username", "password"} :
     store[x[1]][x[2]] # DeployedSecrets[x[1]][x[2]]}

\* Before an invocation the secret of a role is given a new value: the stack
\* is redeployed with another template, or the password is generated anew.
\* Only the store changes.
PutSecretValue(n, f) ==
  /\ \A g \in Handlers : Idle(g)
  /\ invocations < MaxInvocations
  /\ Cardinality(Replaced(secretStore)) < MaxPuts
  /\ secretStore[n][f] # NewValue[n][f]
  /\ secretStore' = [secretStore EXCEPT ![n][f] = NewValue[n][f]]
  /\ UNCHANGED <<env, server, invocations, pc, secrets, rows, client, result,
                 errors, injected, unhandled, issued, started, last, prev, faultsLeft>>
  /\ UNCHANGED constructVars

\* the words of the statement of step k as the handler sends it: the
\* statement's kind, the names interpolated, and for CREATE USER the password
StatementText(h, k) ==
  LET st == Program[k]
  IN {st.op, st.priv, Name(h, st.a), Name(h, st.b), Name(h, st.c)}
       \cup (IF st.op = "CREATE_USER" THEN {PasswordOf(h, st.a)} ELSE {})

\* the server's statement log of the invocation: the statements that reached
\* the server and that log_statement selects, as sent
ServerLog(h) ==
  {StatementText(h, k) :
     k \in {j \in issued[h] \ injected[h] :
              /\ Program[j].kind \in {"query", "queryIfAbsent"}
              /\ Logged(log_statement, Program[j].op)}}

\* the function's log of the invocation: console.error('Error:', error) of
\* the catch block; the error of a rejected statement names the objects the
\* server complained about
FunctionLog(h) ==
  IF result[h] = FailureResult
  THEN {{"Error:", Program[k].op, Name(h, Program[k].a), Name(h, Program[k].b)} :
          k \in errors[h] \ unhandled[h]}
  ELSE {}

\* --------------------------------------------------------- the Martin task
\* tasks the service launches, one after the other
MaxTasks == 6

configKey == "config/config.yaml"
configFile == "/config/config.yaml"

\* taskDefinition.addContainer(..)
ContainerDefinitions ==
  [ConfigLoader |-> [essential |-> FALSE, dependsOn |-> {}],
   MartinContainer |-> [essential |-> TRUE, dependsOn |-> {"ConfigLoader"}]]

ContainerNames == DOMAIN ContainerDefinitions

\* variant: the dependency waits only for the start of the config loader
MartinDependencyStart == "START"

\* martinContainer.addContainerDependencies({container, condition})
MartinDependency == "SUCCESS"

\* exit codes of a container that failed: an error of the command, a kill
FailureCodes == {1, 137}

NoTask == [status |-> "NONE", exitCode |-> -1]
NotStarted == [c \in ContainerNames |-> NoTask]
PendingContainer == [status |-> "PENDING", exitCode |-> -1]
RunningContainer == [status |-> "RUNNING", exitCode |-> -1]
Stopped(code) == [status |-> "STOPPED", exitCode |-> code]

\* a dependency with condition cond on a container in state st is resolved
Resolved(cond, st) ==
  CASE cond = "START" -> st.status \in {"RUNNING", "STOPPED"}
    [] cond = "COMPLETE" -> st.status = "STOPPED"
    [] cond = "SUCCESS" -> st.status = "STOPPED" /\ st.exitCode = 0
    [] OTHER -> FALSE

\* a dependency with condition cond on a container in state st can no
\* longer be resolved
Unresolvable(cond, st) ==
  cond = "SUCCESS" /\ st.status = "STOPPED" /\ st.exitCode # 0

TaskRunning == \E c \in ContainerNames : containers[c].status \in {"PENDING", "RUNNING"}

\* new s3deploy.BucketDeployment(..): the config file is put into the bucket
DeployConfig ==
  /\ configKey \notin bucket
  /\ bucket' = bucket \cup {configKey}
  /\ UNCHANGED <<handlerVars, listenerVars, containers, volume, tasks, tileVars>>

\* the service launches a task (desiredCount 1): new containers, an empty volume
StartTask ==
  /\ ~TaskRunning
  /\ tasks < MaxTasks
  /\ tasks' = tasks + 1
  /\ containers' = [c \in ContainerNames |-> PendingContainer]
  /\ volume' = {}
  /\ UNCHANGED <<handlerVars, listenerVars, bucket, tileVars>>

\* the agent starts a container whose dependencies are resolved
StartContainer(c) ==
  /\ containers[c].status = "PENDING"
  /\ \A d \in ContainerDefinitions[c].dependsOn : Resolved(MartinDependency, containers[d])
  /\ containers' = [containers EXCEPT ![c] = RunningContainer]
  /\ UNCHANGED <<handlerVars, listenerVars, volume, bucket, tasks, tileVars>>

\* aws s3 cp s3://<bucket>/<configKey> /config/config.yaml && ..: the copy
\* writes the file, or fails and the shell exits with its code
LoaderCopy ==
  /\ containers["ConfigLoader"].status = "RUNNING"
  /\ configFile \notin volume
  /\ \/ /\ configKey \in bucket
        /\ volume' = volume \cup {configFile}
        /\ containers' = containers
     \/ /\ \E code \in FailureCodes :
             containers' = [containers EXCEPT !["ConfigLoader"] = Stopped(code)]
        /\ volume' = volume
  /\ UNCHANGED <<handlerVars, listenerVars, bucket, tasks, tileVars>>

\* .. && echo "Config loaded successfully": the shell exits with 0, or is
\* killed before it does
LoaderExit ==
  /\ containers["ConfigLoader"].status = "RUNNING"
  /\ configFile \in volume
  /\ \E code \in {0, 137} :
       containers' = [containers EXCEPT !["ConfigLoader"] = Stopped(code)]
  /\ UNCHANGED <<handlerVars, listenerVars, volume, bucket, tasks, tileVars>>

\* Martin exits: it could not read --config /config/config.yaml, or it
\* crashed or was stopped
MartinExit ==
  /\ containers["MartinContainer"].status = "RUNNING"
  /\ \E code \in {0} \cup FailureCodes :
       containers' = [containers EXCEPT !["MartinContainer"] = Stopped(code)]
  /\ UNCHANGED <<handlerVars, listenerVars, volume, bucket, tasks, tileVars>>

\* the task stops when an essential container has stopped or a container
\* waits for a dependency that can no longer be resolved: the containers
\* still pending or running are stopped
StopTask ==
  /\ TaskRunning
  /\ \E c \in ContainerNames :
       \/ ContainerDefinitions[c].essential /\ containers[c].status = "STOPPED"
       \/ /\ containers[c].status = "PENDING"
          /\ \E d \in ContainerDefinitions[c].dependsOn :
               Unresolvable(MartinDependency, containers[d])
  /\ containers' = [c \in ContainerNames |->
                     IF containers[c].status = "STOPPED" THEN containers[c]
                     ELSE [status |-> "STOPPED",
                           exitCode |-> IF containers[c].status = "RUNNING"
                                        THEN 137 ELSE -1]]
  /\ UNCHANGED <<handlerVars, listenerVars, volume, bucket, tasks, tileVars>>

\* ------------------------------------------------------ the tile functions
\* zoom levels asked for: MinZoom..MaxZoom
MaxZoom == 11
MinZoom == 0 - 1
Zooms == MinZoom..MaxZoom

\* values of roads.highway: those the views name, and others
HighwayClasses ==
  {"motorway", "trunk", "primary", "secondary", "tertiary", "residential",
   "service", "track"}

\* the values of highway of the rows of each materialized view of roads.sql
RoadsViews ==
  [roads_all |-> HighwayClasses,
   roads_up_to_residential |->
     {"motorway", "trunk", "primary", "secondary", "tertiary", "residential"},
   roads_up_to_secondary |-> {"motorway", "trunk", "primary", "secondary"},
   roads_up_to_trunk |-> {"motorway", "trunk"},
   roads_motorways |-> {"motorway"}]

\* variant: the WHEN clauses in the opposite order
roads_source_table_reversed(z) ==
  IF z >= 5 THEN "roads_up_to_trunk"
  ELSE IF z >= 8 THEN "roads_up_to_secondary"
  ELSE IF z >= 9 THEN "roads_all"
  ELSE "roads_motorways"

\* roads_mvt: source_table := CASE WHEN .. END, the first true WHEN decides
roads_source_table(z) ==
  IF z >= 9 THEN "roads_all"
  ELSE IF z >= 8 THEN "roads_up_to_secondary"
  ELSE IF z >= 5 THEN "roads_up_to_trunk"
  ELSE "roads_motorways"

\* values of buildings.building: those the views name, and others.  In the
\* IN lists 'retail' is followed, on the next line and without a comma, by
\* 'supermarket': the two literals are one string.
AccommodationClasses ==
  {"apartments", "barracks", "bungalow", "cabin", "detached", "annexe",
   "dormitory", "farm", "ger", "hotel", "house", "houseboat", "residential",
   "semidetached_house", "static_caravan", "stilt_house", "terrace",
   "tree_house", "trullo"}
CommercialClasses ==
  {"commercial", "industrial", "kiosk", "office", "retailsupermarket", "warehouse"}
BuildingClasses ==
  AccommodationClasses \cup CommercialClasses
    \cup {"retail", "supermarket", "church", "school", "yes"}

\* the values of building of the rows of each materialized view of buildings.sql
BuildingsViews ==
  [buildings_up_to_accommodation |-> AccommodationClasses \cup CommercialClasses,
   buildings_up_to_commercial |-> CommercialClasses,
   buildings_all |-> BuildingClasses]

\* buildings_mvt: source_table := CASE WHEN .. END
buildings_source_table(z) ==
  IF z >= 8 THEN "buildings_up_to_accommodation"
  ELSE IF z >= 5 THEN "buildings_up_to_commercial"
  ELSE "buildings_all"

\* the two most recent calls
LastTwo(calls) == IF Len(calls) > 2 THEN Tail(calls) ELSE calls

\* SELECT roads_mvt(z, x, y)
roads_mvt(z) ==
  /\ tileCalls' = LastTwo(Append(tileCalls,
                     [function |-> "roads_mvt", z |-> z,
                      source_table |-> roads_source_table(z)]))
  /\ UNCHANGED <<handlerVars, listenerVars, taskVars>>

\* SELECT buildings_mvt(z, x, y)
buildings_mvt(z) ==
  /\ tileCalls' = LastTwo(Append(tileCalls,
                     [function |-> "buildings_mvt", z |-> z,
                      source_table |-> buildings_source_table(z)]))
  /\ UNCHANGED <<handlerVars, listenerVars, taskVars>>

\* ------------------------------------------- the listener of the load balancer
\* Host names and paths are sequences of tokens: the labels and dots of a
\* host name, the slashes and segments of a path.
baseUrl == <<"gridwalk", ".", "co">>
AppHost == <<"app", ".">> \o baseUrl
ApiHost == <<"api", ".">> \o baseUrl

\* longest path, in tokens, of the requests considered
MaxPathLen == 3

PathTokens == {"/", "map", "api"}
Paths ==
  {p \in UNION {[1..n -> PathTokens] : n \in 1..MaxPathLen} : p[1] = "/"}
Hosts ==
  {AppHost, ApiHost, baseUrl,
   <<"APP", ".">> \o baseUrl,
   <<"www", ".">> \o baseUrl,
   <<"api", ".">> \o AppHost,
   <<"app", ".", "example", ".", "co">>}

NoRequest == [host |-> <<>>, path |-> <<>>]
NoAction == [type |-> "none"]

\* the listener's own default action, taken when no rule matches
DefaultAction == [type |-> "default"]

Forward(targetGroup) == [type |-> "forward", targetGroup |-> targetGroup]

\* ListenerAction.redirect({host, path, permanent, port, protocol})
Redirect(host, path, permanent, port, protocol) ==
  [type |-> "redirect", statusCode |-> IF permanent THEN 301 ELSE 302,
   protocol |-> protocol, host |-> host, port |-> port, path |-> path]

\* the rules the Gridwalk construct adds to the listener
ListenerRules ==
  { [id |-> "GridwalkBackendTargetGroup", priority |-> 10,
     hostHeaders |-> {ApiHost}, pathPatterns |-> {},
     action |-> Forward("backendTargetGroup")],
    [id |-> "AppRootRedirect", priority |-> 4,
     hostHeaders |-> {AppHost}, pathPatterns |-> {<<"/">>},
     action |-> Redirect(baseUrl, <<"/">>, TRUE, "443", "HTTPS")],
    [id |-> "GridwalkUiTargetGroup", priority |-> 5,
     hostHeaders |-> {AppHost}, pathPatterns |-> {},
     action |-> Forward("uiTargetGroup")],
    [id |-> "GridwalkProductTargetGroup", priority |-> 30,
     hostHeaders |-> {baseUrl}, pathPatterns |-> {},
     action |-> Forward("productTargetGroup")] }

\* a pattern matches a text: * stands for any tokens, ? for one token
RECURSIVE Glob(_, _)
Glob(pat, txt) ==
  IF pat = <<>> THEN txt = <<>>
  ELSE IF Head(pat) = "*"
       THEN Glob(Tail(pat), txt) \/ (txt # <<>> /\ Glob(pat, Tail(txt)))
       ELSE /\ txt # <<>>
            /\ Head(pat) \in {"?", Head(txt)}
            /\ Glob(Tail(pat), Tail(txt))

\* host names are compared without regard to case
LowerCase == [APP |-> "app", API |-> "api", WWW |-> "www"]
Lower(host) ==
  [n \in 1..Len(host) |->
     IF host[n] \in DOMAIN LowerCase THEN LowerCase[host[n]] ELSE host[n]]

\* a rule matches a request when each of its conditions has a matching value
RuleMatches(r, req) ==
  /\ \E h \in r.hostHeaders : Glob(Lower(h), Lower(req.host))
  /\ r.pathPatterns # {} => \E q \in r.pathPatterns : Glob(q, req.path)

\* variant: the rule with the highest priority number is taken
RouteHighestNumber(req) ==
  LET matching == {r \in ListenerRules : RuleMatches(r, req)}
  IN IF matching = {} THEN DefaultAction
     ELSE (CHOOSE r \in matching : \A q \in matching : r.priority >= q.priority).action

\* the listener takes the action of the matching rule with the lowest
\* priority number, or its default action
Route(req) ==
  LET matching == {r \in ListenerRules : RuleMatches(r, req)}
  IN IF matching = {} THEN DefaultAction
     ELSE (CHOOSE r \in matching : \A q \in matching : r.priority <= q.priority).action

\* a request arrives at the listener
Receive(h, p) ==
  /\ request = NoRequest
  /\ request' = [host |-> h, path |-> p]
  /\ routed' = NoAction
  /\ UNCHANGED <<handlerVars, taskVars, tileVars>>

\* the listener evaluates its rules for the request
Evaluate ==
  /\ request # NoRequest
  /\ routed = NoAction
  /\ routed' = Route(request)
  /\ UNCHANGED <<handlerVars, request, taskVars, tileVars>>

\* the action is carried out and the request is done with
Respond ==
  /\ routed # NoAction
  /\ request' = NoRequest
  /\ routed' = NoAction
  /\ UNCHANGED <<handlerVars, taskVars, tileVars>>

\* ------------------------------------------------------------------ claims
TargetDb == env.DB_NAME
TargetSchema == env.SCHEMA_NAME
AppUser == secretStore.AppSecret.username
ReadUser == secretStore.ReadSecret.username
AdminUser == secretStore.GisadminSecret.username
MasterUser == secretStore.MasterSecret.username

\* the grants of the three roles (lines 187-217)
RoleGrants ==
  { <<"CONNECT", "database", TargetDb, "", AppUser>>,
    <<"USAGE", "schema", TargetDb, TargetSchema, AppUser>>,
    <<"CREATE", "schema", TargetDb, TargetSchema, AppUser>>,
    <<"CONNECT", "database", TargetDb, "", ReadUser>>,
    <<"USAGE", "schema", TargetDb, TargetSchema, ReadUser>>,
    <<"SELECT", "tables", TargetDb, TargetSchema, ReadUser>>,
    <<"CONNECT", "database", TargetDb, "", AdminUser>>,
    <<"USAGE", "schema", TargetDb, TargetSchema, AdminUser>>,
    <<"USAGE", "schema", TargetDb, "public", AdminUser>>,
    <<"SELECT", "tables", TargetDb, TargetSchema, AdminUser>>,
    <<"MEMBER", "role", "", "rds_superuser", AdminUser>>,
    <<"ALL", "database", TargetDb, "", AdminUser>>,
    <<"MEMBER", "role", "", AppUser, MasterUser>> }

RoleDefaults ==
  { <<MasterUser, TargetDb, TargetSchema, "INSERT,UPDATE,DELETE", AppUser>>,
    <<MasterUser, TargetDb, TargetSchema, "SELECT", ReadUser>>,
    <<AppUser, TargetDb, TargetSchema, "SELECT", ReadUser>> }

FullyProvisioned(srv) ==
  /\ TargetDb \in srv.databases
  /\ <<TargetDb, TargetSchema>> \in srv.schemas
  /\ \A u \in {AppUser, ReadUser, AdminUser} : RoleExists(srv, u)
  /\ RoleGrants \subseteq srv.grants
  /\ RoleDefaults \subseteq srv.defaults
  /\ \A e \in Extensions : <<TargetDb, e>> \in srv.extensions

Returned(h) == pc[h] = DonePc
StepsOfKind(kind) == {k \in 1..NumSteps : Program[k].kind = kind}
ConnectAttempted(h) == issued[h] \cap StepsOfKind("connect") # {}

\* two invocations in succession: the one summarised in prev, then the one
\* summarised in last
Successive == prev.n >= 1 /\ last.n = prev.n + 1

ExistOnce(srv) ==
  /\ \A u \in {AppUser, ReadUser, AdminUser} :
       Cardinality({r \in srv.roles : r[1] = u}) = 1
  /\ Cardinality({d \in srv.databases : d = TargetDb}) = 1
  /\ Cardinality({x \in srv.schemas : x = <<TargetDb, TargetSchema>>}) = 1
  /\ \A e \in Extensions :
       Cardinality({x \in srv.extensions : x = <<TargetDb, e>>}) = 1

\* C1: two invocations in succession without injected fault both return the
\* success result and the second leaves the server exactly as the first
\* left it, with the database, the schema, the roles and the extensions
\* each present once.
C1_Idempotent ==
  (Successive /\ prev.clean /\ last.clean)
    => /\ prev.statusCode = 200
       /\ last.statusCode = 200
       /\ last.snap = prev.snap
       /\ ExistOnce(last.snap)

\* the two invocations ran against a server that was empty at the start
C1_Witness ==
  /\ Successive /\ prev.clean /\ last.clean
  /\ prev.n = 1
  /\ prev.start = FreshServer
  /\ last.statusCode = 200

\* C2: an invocation that follows a failed one and suffers no injected fault
\* returns the success result and leaves the server fully provisioned.
C2_RetrySafe ==
  (Successive /\ prev.statusCode = 500 /\ last.clean)
    => /\ last.statusCode = 200
       /\ FullyProvisioned(last.snap)
       /\ ExistOnce(last.snap)

\* the failed invocation stopped half way: it had created the write role and
\* not yet the read role
C2_Witness ==
  /\ Successive /\ prev.statusCode = 500 /\ last.clean
  /\ prev.start = FreshServer
  /\ RoleExists(prev.snap, AppUser)
  /\ ~RoleExists(prev.snap, ReadUser)
  /\ last.statusCode = 200

\* C3 (as claimed): whenever the handler has returned the success result the
\* server is fully provisioned and no step of that invocation raised.
C3_SuccessPostcondition ==
  \A h \in Handlers :
    result[h] = SuccessResult => FullyProvisioned(server) /\ errors[h] = {}

\* C4 (as claimed): no error escapes the handler; the result is the success
\* result or the failure result, and it is the failure result whenever a
\* step raised.
C4_AllErrorsCaught ==
  \A h \in Handlers :
    /\ unhandled[h] = {}
    /\ Returned(h) => result[h] \in {SuccessResult, FailureResult}
    /\ (Returned(h) /\ errors[h] # {}) => result[h] = FailureResult

\* C5: when the lookup of a secret bundle raised, the invocation is at its
\* catch block or has returned the failure result, and it attempted no
\* database connection.
C5_FailFastOnSecret ==
  \A h \in Handlers :
    (errors[h] \cap StepsOfKind("secret") # {})
      => /\ ~ConnectAttempted(h)
         /\ pc[h] \in {CatchPc, DonePc}
         /\ Returned(h) => result[h] = FailureResult

\* the lookup of the fourth bundle (app) raised after three that succeeded
C5_Witness ==
  \E h \in Handlers :
    /\ 4 \in errors[h]
    /\ Returned(h)
    /\ result[h] = FailureResult
    /\ secrets[h]["gisadminSecret"] # NoSecret

\* C6 (as claimed): with an environment parameter missing, no database
\* connection is attempted and the invocation fails.
C6_MissingParameterFails ==
  \A h \in Handlers :
    (\E n \in EnvNames : env[n] = Undefined)
      => /\ ~ConnectAttempted(h)
         /\ Returned(h) => result[h] = FailureResult

\* C7 (as claimed): once a step has raised, the invocation makes no further
\* call and returns the failure result.
C7_AbortOnFailure ==
  \A h \in Handlers :
    /\ \A e \in errors[h] : \A k \in issued[h] : k <= e
    /\ (Returned(h) /\ errors[h] # {}) => result[h] = FailureResult

\* what exists in the catalog a exists in the catalog b, with the same
\* password, grantee and privilege
Keeps(a, b) ==
  /\ a.databases \subseteq b.databases
  /\ a.schemas \subseteq b.schemas
  /\ a.roles \subseteq b.roles
  /\ a.grants \subseteq b.grants
  /\ a.defaults \subseteq b.defaults
  /\ a.extensions \subseteq b.extensions
  /\ a.functions \subseteq b.functions
  /\ {<<r[1], r[2], r[3]>> : r \in a.relations}
       \subseteq {<<r[1], r[2], r[3]>> : r \in b.relations}

\* C8: no step removes a database, schema, role, grant, extension or
\* relation, and the step that raises and the catch block leave the server
\* as it was.
C8_Monotone ==
  [][ /\ Keeps(server, server')
      /\ \A h \in Handlers :
           (pc[h] = CatchPc \/ (pc[h] # CatchPc /\ pc'[h] = CatchPc))
             => server' = server ]_vars

\* a failed invocation has returned and left a partial state behind: the
\* database without the schema
C8_Witness ==
  \E h \in Handlers :
    /\ Returned(h)
    /\ result[h] = FailureResult
    /\ TargetDb \in server.databases
    /\ started[h] = FreshServer
    /\ <<TargetDb, TargetSchema>> \notin server.schemas

\* the names a statement refers to exist when the statement is sent
Prepared(h, st) ==
  LET A == Name(h, st.a)
      B == Name(h, st.b)
  IN /\ st.kind = "connect" => A \in server.databases
     /\ st.op \in {"GRANT_ON_SCHEMA", "GRANT_ON_ALL_TABLES", "ALTER_DEFAULT_PRIVILEGES"}
          => SchemaExists(server, Session(h, st.client).db, A) /\ RoleExists(server, B)
     /\ st.op = "GRANT_ON_DATABASE" => A \in server.databases /\ RoleExists(server, B)
     /\ st.op = "GRANT_ROLE" => RoleExists(server, A) /\ RoleExists(server, B)

\* C9 (as claimed): the steps run in source order, each started after the
\* call of the previous one has completed, and a statement is sent only when
\* the database, schema and roles it names exist.
C9_StrictOrder ==
  [][ \A h \in Handlers :
        (pc[h] \in 1..NumSteps /\ pc'[h] # pc[h])
          => /\ ~Pending(h)
             /\ \A k \in issued[h] : k < pc[h]
             /\ issued'[h] # issued[h] => Prepared(h, Program[pc[h]]) ]_vars

\* the connections of the invocation that the server still holds: connected,
\* and not yet closed
OpenClients(h) == {c \in Clients : client[h][c] \in {"open", "ending"}}

\* C10 (as claimed): each connection is closed before the next one is
\* opened, so at most one connection of an invocation is open at any time.
C10_OneConnection == \A h \in Handlers : Cardinality(OpenClients(h)) <= 1

\* the step of the program that sends op for the name a
StepOf(op, a) ==
  CHOOSE k \in 1..NumSteps : Program[k].op = op /\ Program[k].a = a

\* the invocation has gone past step k without raising at it or before it
Passed(h, k) == pc[h] \in (k + 1)..NumSteps \/ (pc[h] = DonePc /\ result[h] = SuccessResult)

\* the invocation summarised in s created the target database
CreatedDatabase(s) == TargetDb \notin s.start.databases /\ TargetDb \in s.snap.databases

\* C11: CREATE DATABASE is sent in an invocation exactly when its existence
\* check returned no row, which is exactly when the target database did not
\* exist; a creation takes effect only on a server without the database, and
\* of two invocations in succession at most one creates it.
C11_DatabaseCreatedOnce ==
  LET k == StepOf("CREATE_DATABASE", "dbName")
  IN /\ \A h \in Handlers :
          /\ k \in issued[h]
               => /\ rows[h]["dbExistsResult"] = 0
                  /\ TargetDb \notin started[h].databases
          /\ (Passed(h, k) /\ rows[h]["dbExistsResult"] = 0) => k \in issued[h]
          /\ (Passed(h, k) /\ TargetDb \notin started[h].databases) => k \in issued[h]
          /\ (k \in issued[h] /\ k \notin errors[h]) => TargetDb \in server.databases
     /\ Successive => ~(CreatedDatabase(prev) /\ CreatedDatabase(last))

\* the first invocation created the database and the second one, which found
\* it, has passed the create without sending it
C11_Witness ==
  \E h \in Handlers :
    /\ Successive
    /\ CreatedDatabase(prev)
    /\ last.statusCode = 200
    /\ Returned(h)
    /\ rows[h]["dbExistsResult"] = 1
    /\ StepOf("CREATE_DATABASE", "dbName") \notin issued[h]

\* the bundles of the three roles the handler creates
RoleBundles == {"appSecret", "readSecret", "gisadminSecret"}

GrantOps == {"GRANT_ON_DATABASE", "GRANT_ON_SCHEMA", "GRANT_ON_ALL_TABLES",
             "ALTER_DEFAULT_PRIVILEGES", "GRANT_ROLE"}

\* the grant statements whose grantee is the role of bundle b
GrantSteps(b) == {g \in 1..NumSteps : Program[g].op \in GrantOps /\ Program[g].b = b}

\* C12: for each of the three roles, CREATE USER is sent exactly when the
\* role's existence check returned no row, a role that was created carries
\* the password of its bundle, and every grant statement of the role that
\* the invocation has passed was sent, whatever the check returned.
C12_RolesCreatedIfAbsent ==
  \A h \in Handlers : \A b \in RoleBundles :
    LET k == StepOf("CREATE_USER", b)
        var == Program[k].var
    IN /\ k \in issued[h] => rows[h][var] = 0
       /\ (Passed(h, k) /\ rows[h][var] = 0) => k \in issued[h]
       /\ (k \in issued[h] /\ k \notin errors[h])
            => <<secrets[h][b].username, secrets[h][b].password>> \in server.roles
       /\ \A g \in GrantSteps(b) : Passed(h, g) => g \in issued[h]

\* an invocation found the three roles present, created none of them and
\* sent all their grants
C12_Witness ==
  \E h \in Handlers :
    /\ result[h] = SuccessResult
    /\ \A b \in RoleBundles :
         /\ rows[h][Program[StepOf("CREATE_USER", b)].var] = 1
         /\ StepOf("CREATE_USER", b) \notin issued[h]
         /\ GrantSteps(b) # {}
         /\ GrantSteps(b) \subseteq issued[h]

\* the invocation that returned last succeeded and none is running
Provisioned == last.statusCode = 200 /\ \A g \in Handlers : Idle(g)

\* role u, connected to the target database, can exercise p on the table rel
\* of the target schema
Can(u, p, rel) ==
  /\ HasConnect(server, u, TargetDb)
  /\ HasSchemaPriv(server, u, TargetDb, TargetSchema, "USAGE")
  /\ HasTablePriv(server, u, TargetDb, TargetSchema, rel, p)

\* role u can drop the target schema: it owns it
CanDropSchema(u) ==
  \E o \in server.schemaOwner :
    o[1] = TargetDb /\ o[2] = TargetSchema /\ Member(server, u, o[3])

\* role u can manage extensions: the platform lets rds_superuser do so
CanManageExtensions(u) == Member(server, u, "rds_superuser")

\* C13 (as claimed): after a successful invocation the three roles can
\* connect to the target database, and on every table of the target schema
\* the read role can select and cannot insert, the write role can insert,
\* update and delete and cannot drop the schema, and the admin role can
\* select, insert, update and delete and can manage extensions.
C13_GrantCompleteness ==
  Provisioned
    => /\ \A u \in {ReadUser, AppUser, AdminUser} : HasConnect(server, u, TargetDb)
       /\ ~CanDropSchema(AppUser)
       /\ CanManageExtensions(AdminUser)
       /\ \A t \in Tables(server) :
            /\ Can(ReadUser, "SELECT", t[3])
            /\ ~Can(ReadUser, "INSERT", t[3])
            /\ \A p \in {"INSERT", "UPDATE", "DELETE"} : Can(AppUser, p, t[3])
            /\ \A p \in {"SELECT", "INSERT", "UPDATE", "DELETE"} : Can(AdminUser, p, t[3])

\* C14: every table the write role has created in the target schema after a
\* successful invocation can be selected by the read role.
C14_FutureGrants ==
  \A t \in Tables(server) : t[4] = AppUser => Can(ReadUser, "SELECT", t[3])

\* the write role has created a table, and the read role, which does not own
\* it, holds SELECT on it
C14_Witness ==
  \E t \in Tables(server) :
    /\ t[4] = AppUser
    /\ <<t[1], t[2], t[3], "SELECT", ReadUser>> \in server.acl
    /\ ~Member(server, ReadUser, AppUser)

\* the relations of the topology schema of the target database
TopologyObjects(srv) == {r \in srv.relations : r[1] = TargetDb /\ r[2] = "topology"}

\* C15 (as claimed): when an invocation has returned the success result, the
\* topology schema and every relation in it are owned by the role whose
\* username the invocation read from the admin bundle.
C15_OwnershipTransfer ==
  \A h \in Handlers :
    result[h] = SuccessResult
      => LET admin == secrets[h]["gisadminSecret"].username
         IN /\ <<TargetDb, "topology", admin>> \in server.schemaOwner
            /\ TopologyObjects(server) # {}
            /\ \A r \in TopologyObjects(server) : r[4] = admin

\* the lookup steps of the program
SecretSteps == StepsOfKind("secret")

\* what the secret store holds for the bundle that step k looks up
Stored(k) == secretStore[env[Program[k].op]]

\* the invocation read every bundle as the store holds it now
ReadCurrent(h) == \A k \in SecretSteps : secrets[h][Program[k].a] = Stored(k)

\* the store differs from the deployed one in passwords only
PasswordRotated ==
  /\ Replaced(secretStore) # {}
  /\ \A x \in Replaced(secretStore) : x[2] = "password"

\* C16 (as claimed): an invocation starts with no bundle, every lookup it
\* has made gave it the value the store holds, and an invocation that ran
\* without injected fault with the bundles of a store in which a password
\* was rotated returns the success result.
C16_FreshSecrets ==
  \A h \in Handlers :
    /\ pc[h] = 1 => \A b \in Bundles : secrets[h][b] = NoSecret
    /\ pc[h] \in 1..NumSteps
         => \A k \in SecretSteps :
              secrets[h][Program[k].a] = IF k < pc[h] THEN Stored(k) ELSE NoSecret
    /\ (Returned(h) /\ injected[h] = {} /\ ReadCurrent(h) /\ PasswordRotated)
         => result[h] = SuccessResult

\* the passwords of the bundles in the secret store
BundlePasswords == {secretStore[n].password : n \in DOMAIN secretStore}

\* C17 (as claimed): no entry of the function's log or of the server's
\* statement log contains the password of a bundle.
C17_NoPasswordLogged ==
  \A h \in Handlers :
    \A entry \in FunctionLog(h) \cup ServerLog(h) : entry \cap BundlePasswords = {}

\* the create statements of the program
CreateSteps == StepsOfKind("queryIfAbsent")

\* the invocations whose create statement of step k took effect
Creators(k) == {h \in Environments : k \in issued[h] \ errors[h]}

\* C18: with two invocations running at the same time, each create statement
\* takes effect in at most one of them and every database and role exists at
\* most once; an invocation whose create was rejected goes to its catch
\* block and returns the failure result; an invocation that returns the
\* success result leaves the server fully provisioned, and when both have
\* returned one of them has succeeded.
C18_ConcurrentCreation ==
  /\ \A k \in CreateSteps : Cardinality(Creators(k)) <= 1
  /\ \A u \in {AppUser, ReadUser, AdminUser} :
       Cardinality({r \in server.roles : r[1] = u}) <= 1
  /\ \A h \in Environments :
       /\ errors[h] \cap CreateSteps # {}
            => /\ pc[h] \in {CatchPc, DonePc}
               /\ \A k \in issued[h] : \A e \in errors[h] : k <= e
               /\ Returned(h) => result[h] = FailureResult
       /\ result[h] = SuccessResult => FullyProvisioned(server)
  /\ (\A h \in Environments : Returned(h))
       => \E h \in Environments : result[h] = SuccessResult

\* both invocations found the database absent and both sent CREATE DATABASE:
\* one created it and succeeded, the other was rejected and failed
C18_Witness ==
  \E h, g \in Environments :
    LET k == StepOf("CREATE_DATABASE", "dbName")
    IN /\ h # g
       /\ k \in errors[h]
       /\ result[h] = FailureResult
       /\ k \in issued[g] \ errors[g]
       /\ result[g] = SuccessResult

\* the owners recorded for the target schema: one per creation of it
SchemaCreations(srv) ==
  {o \in srv.schemaOwner : o[1] = TargetDb /\ o[2] = TargetSchema}

\* C19: an invocation that has gone past the two statements of step 4 has
\* sent both of them, the target schema then exists and was created once
\* (an existing schema is left as it was at the start of the invocation),
\* and the search path of the target database is the target schema followed
\* by public, also when the schema existed before; after a successful
\* invocation the search path is exactly that.
C19_SchemaAndSearchPath ==
  \A h \in Handlers :
    LET kS == StepOf("CREATE_SCHEMA_IF_NOT_EXISTS", "schemaName")
        kP == StepOf("SET_SEARCH_PATH", "dbName")
    IN /\ kP = kS + 1
       /\ Passed(h, kS)
            => /\ kS \in issued[h]
               /\ <<TargetDb, TargetSchema>> \in server.schemas
               /\ Cardinality(SchemaCreations(server)) = 1
               /\ <<TargetDb, TargetSchema>> \in started[h].schemas
                    => SchemaCreations(server) = SchemaCreations(started[h])
       /\ Passed(h, kP)
            => /\ kP \in issued[h]
               /\ server.searchPath[TargetDb] = <<TargetSchema, "public">>
       /\ result[h] = SuccessResult
            => server.searchPath[TargetDb] = <<TargetSchema, "public">>

\* a later invocation found the schema present and has set the path again
C19_Witness ==
  \E h \in Handlers :
    /\ invocations > 1
    /\ <<TargetDb, TargetSchema>> \in started[h].schemas
    /\ pc[h] = StepOf("SET_SEARCH_PATH", "dbName") + 1
    /\ server.searchPath[TargetDb] = <<TargetSchema, "public">>

\* the statements of the extension installs and the ownership reassignment
AdminOps ==
  {"CREATE_EXTENSION_IF_NOT_EXISTS", "ALTER_SCHEMA_OWNER",
   "CREATE_OR_REPLACE_FUNCTION", "ALTER_TABLES_OWNER"}

\* the statements the invocation has sent
Statements(h) == issued[h] \cap (StepsOfKind("query") \cup StepsOfKind("queryIfAbsent"))

\* the grants of lines 208-212 to the admin role
AdminGrants == {g \in RoleGrants : g[5] = AdminUser}

\* the grant statements naming the admin role
AdminGrantSteps == GrantSteps("gisadminSecret")

\* C20: every existence check, create and grant is sent on a connection
\* built with the master identity, and the extension installs and the
\* ownership reassignment are sent only on the connection built with the
\* admin identity; when the connect of that connection is called, the admin
\* role exists and this invocation has granted it its privileges.
C20_IdentitySeparation ==
  \A h \in Handlers :
    /\ \A k \in Statements(h) :
         IF Program[k].op \in AdminOps
         THEN /\ Program[k].client = "gisadminClient"
              /\ Session(h, Program[k].client).user = AdminUser
         ELSE /\ Program[k].client \in {"postgresClient", "dbClient"}
              /\ Session(h, Program[k].client).user = MasterUser
    /\ ConnectStep["gisadminClient"] \in issued[h]
         => /\ RoleExists(server, AdminUser)
            /\ AdminGrants \subseteq server.grants
            /\ AdminGrantSteps # {}
            /\ AdminGrantSteps \subseteq issued[h] \ errors[h]
            /\ \A k \in AdminGrantSteps : k < ConnectStep["gisadminClient"]
            /\ client[h]["dbClient"] # "open"

\* the ownership reassignment went through on the admin connection, the
\* master statements having been sent before it
C20_Witness ==
  \E h \in Handlers :
    /\ client[h]["gisadminClient"] = "open"
    /\ StepOf("ALTER_TABLES_OWNER", "topology") \in issued[h] \ errors[h]
    /\ StepOf("GRANT_ROLE", "appSecret") \in issued[h] \ errors[h]

\* the handler has been entered and has not returned
Running(h) == pc[h] \in 1..CatchPc

\* C21: the handler never makes a call a second time in one invocation, in
\* every state of a running invocation a step of the handler is possible,
\* an invocation that has returned has returned the success result with
\* the server fully provisioned or the failure result with the error
\* logged, and, every call eventually returning or raising, every running
\* invocation eventually returns.
C21_Termination ==
  /\ [](\A h \in Handlers :
          /\ pc[h] \in 1..NumSteps => pc[h] \notin issued[h]
          /\ Running(h) => ENABLED HandlerStep(h)
          /\ Returned(h) =>
               \/ result[h] = SuccessResult /\ FullyProvisioned(server)
               \/ result[h] = FailureResult /\ FunctionLog(h) # {})
  /\ \A h \in Handlers : Running(h) ~> Returned(h)

\* an invocation has returned each of the two results: a failure after a
\* call that raised, then a success
C21_Witness ==
  \E h \in Handlers :
    /\ Returned(h)
    /\ result[h] = SuccessResult
    /\ prev.statusCode = FailureResult.statusCode
    /\ last.statusCode = SuccessResult.statusCode

\* C22 (as claimed): at the step in which the handler returns, with either
\* result, none of the connections of the invocation is open, and when it
\* returns the success result the close of the last connection has completed.
C22_ClosedAtReturn ==
  [][ \A h \in Handlers :
        (pc[h] # DonePc /\ pc'[h] = DonePc)
          => /\ \A c \in Clients : client'[h][c] # "open"
             /\ result'[h] = SuccessResult => client'[h]["gisadminClient"] = "ended" ]_vars

\* the roles of the catalog named u
RolesNamed(srv, u) == {r \in srv.roles : r[1] = u}

\* C23: no step changes or removes the password of a role of the server;
\* CREATE USER is sent only for a role the server does not have, and the
\* role it creates gets the password of the bundle the invocation read.
C23_PasswordKept ==
  [][ /\ \A r \in server.roles : RolesNamed(server', r[1]) = {r}
      /\ \A h \in Handlers : \A b \in RoleBundles :
           LET k == StepOf("CREATE_USER", b)
           IN k \in issued'[h] \ issued[h]
                => /\ ~RoleExists(server, Name(h, b))
                   /\ k \notin errors'[h]
                        => RolesNamed(server', Name(h, b))
                             = {<<Name(h, b), secrets[h][b].password>>} ]_vars

\* an invocation that read a replaced password for a role that was there
\* when it started has succeeded, and the role has the password it had
C23_Witness ==
  \E h \in Handlers : \E b \in RoleBundles :
    /\ Returned(h)
    /\ result[h] = SuccessResult
    /\ \E r \in started[h].roles :
         /\ r[1] = secrets[h][b].username
         /\ r[2] # secrets[h][b].password
         /\ r \in server.roles

\* the invocations that are in the catch block or returned the failure result
Failing ==
  {h \in Environments : pc[h] = CatchPc \/ (Returned(h) /\ result[h] = FailureResult)}

\* C24: of two invocations running at the same time with no injected fault
\* at most one goes to the catch block, and only because a create of its
\* own was rejected; a running invocation can always take its next step,
\* whatever the other one is doing; once both have returned one of them has
\* returned the success result and the server is fully provisioned.
C24_ConcurrentProgress ==
  /\ Cardinality(Failing) <= 1
  /\ \A h \in Failing : errors[h] # {} /\ errors[h] \subseteq CreateSteps
  /\ \A h \in Environments : Running(h) => ENABLED HandlerStep(h)
  /\ (\A h \in Environments : Returned(h))
       => /\ Cardinality(Environments \ Failing) >= 1
          /\ FullyProvisioned(server)

\* both invocations have returned on a server that was fresh, one of them
\* with the failure result after its create of a role was rejected
C24_Witness ==
  \E h, g \in Environments :
    /\ started[h] = FreshServer
    /\ Failing = {g}
    /\ Returned(g)
    /\ errors[g] \cap {StepOf("CREATE_USER", b) : b \in RoleBundles} # {}
    /\ Returned(h)
    /\ result[h] = SuccessResult

\* the functions, other than those of the extensions, of the target database
HelperFunctions(srv) == {f \in srv.functions : f[1] = TargetDb}

\* C25 (as claimed): after a successful invocation the server holds the
\* target database, the target schema, the three roles besides the roles it
\* had, and the extensions with the relations they create, and the target
\* database holds no function, table or role the handler made for its own
\* use.
C25_ExactlyProvisioned ==
  \A h \in Handlers :
    (Returned(h) /\ result[h] = SuccessResult)
      => /\ FullyProvisioned(server)
         /\ server.databases = started[h].databases \cup {TargetDb}
         /\ {r[1] : r \in server.roles}
              = {r[1] : r \in started[h].roles} \cup {AppUser, ReadUser, AdminUser}
         /\ {r \in server.relations : r[1] = TargetDb} = TopologyObjects(server)
         /\ HelperFunctions(server) = {}

\* C26: the four listener rules have pairwise distinct priorities, and for
\* every request the listener has routed: host app.<baseUrl> with path / is
\* redirected to https://<baseUrl>:443/, host app.<baseUrl> with any other
\* path is forwarded to the UI target group, host api.<baseUrl> to the
\* backend target group and host <baseUrl> to the product target group.
C26_ListenerRouting ==
  /\ \A r, q \in ListenerRules : r.priority = q.priority => r = q
  /\ Cardinality(ListenerRules) = 4
  /\ routed # NoAction
       => LET h == Lower(request.host)
              p == request.path
          IN /\ (h = AppHost /\ p = <<"/">>)
                  => routed = [type |-> "redirect", statusCode |-> 301,
                               protocol |-> "HTTPS", host |-> baseUrl,
                               port |-> "443", path |-> <<"/">>]
             /\ (h = AppHost /\ p # <<"/">>) => routed = Forward("uiTargetGroup")
             /\ h = ApiHost => routed = Forward("backendTargetGroup")
             /\ h = baseUrl => routed = Forward("productTargetGroup")

\* the request for the root of the app host has been redirected
C26_Witness ==
  /\ request = [host |-> AppHost, path |-> <<"/">>]
  /\ routed.type = "redirect"

MartinStarted == containers["MartinContainer"].status = "RUNNING"
                   \/ containers["MartinContainer"].exitCode \in {0} \cup FailureCodes
LoaderFailed == /\ containers["ConfigLoader"].status = "STOPPED"
                /\ containers["ConfigLoader"].exitCode # 0

\* C27: in every task, the Martin container is running or has run only if
\* the config loader has exited with code 0 and the configuration file is in
\* the shared volume; when the config loader has exited with another code
\* the Martin container has not been started; and the Martin container goes
\* from pending to running only in a state where the loader had exited with 0.
C27_MartinAfterConfig ==
  /\ [](MartinStarted => /\ containers["ConfigLoader"] = Stopped(0)
                          /\ configFile \in volume)
  /\ [](LoaderFailed => ~MartinStarted)
  /\ [][ (containers["MartinContainer"].status = "PENDING"
           /\ containers'["MartinContainer"].status = "RUNNING")
          => containers["ConfigLoader"] = Stopped(0) ]_vars

\* Martin is running in a task, not the first one, whose loader copied the
\* file and exited with 0
C27_Witness ==
  /\ tasks > 1
  /\ containers["MartinContainer"].status = "RUNNING"
  /\ containers["ConfigLoader"] = Stopped(0)
  /\ configFile \in volume

\* C28: every call of roads_mvt selects one of the materialized views, the
\* one the zoom level calls for (z >= 9 roads_all, z = 8
\* roads_up_to_secondary, 5 <= z <= 7 roads_up_to_trunk, z < 5
\* roads_motorways), and of two calls the one with the lower zoom level
\* selects a view whose highway classes are among those of the other's view.
C28_RoadsSource ==
  /\ \A n \in 1..Len(tileCalls) :
       LET z == tileCalls[n].z
           t == tileCalls[n].source_table
       IN /\ t \in DOMAIN RoadsViews
          /\ z >= 9 => t = "roads_all"
          /\ z = 8 => t = "roads_up_to_secondary"
          /\ (5 <= z /\ z <= 7) => t = "roads_up_to_trunk"
          /\ z < 5 => t = "roads_motorways"
  /\ \A n, m \in 1..Len(tileCalls) :
       tileCalls[n].z <= tileCalls[m].z
         => RoadsViews[tileCalls[n].source_table]
              \subseteq RoadsViews[tileCalls[m].source_table]

\* a call at zoom 8 after a call at zoom 9: different views, the second a
\* proper part of the first
C28_Witness ==
  /\ Len(tileCalls) = 2
  /\ tileCalls[1].z = 9
  /\ tileCalls[2].z = 8
  /\ RoadsViews[tileCalls[2].source_table] # RoadsViews[tileCalls[1].source_table]

\* C29 (as claimed): every call of buildings_mvt selects one of the
\* materialized views, of two calls the one with the lower zoom level
\* selects a view whose building classes are among those of the other's
\* view, and the highest zoom level selects the view of all buildings.
C29_BuildingsSource ==
  /\ \A n \in 1..Len(tileCalls) :
       /\ tileCalls[n].source_table \in DOMAIN BuildingsViews
       /\ tileCalls[n].z = MaxZoom => tileCalls[n].source_table = "buildings_all"
  /\ \A n, m \in 1..Len(tileCalls) :
       tileCalls[n].z <= tileCalls[m].z
         => BuildingsViews[tileCalls[n].source_table]
              \subseteq BuildingsViews[tileCalls[m].source_table]


\* ----------------------------------------------------------- specification
\* no request at the listener, the Martin task not started, no tile asked for
InitConstructs ==
  /\ request = NoRequest
  /\ routed = NoAction
  /\ containers = NotStarted
  /\ volume = {}
  /\ bucket = {}
  /\ tasks = 0
  /\ tileCalls = <<>>

InitHandler ==
  /\ InitConstructs
  /\ secretStore = DeployedSecrets
  /\ invocations = 0
  /\ pc = [i \in Environments |-> 0]
  /\ secrets = [i \in Environments |-> [b \in Bundles |-> NoSecret]]
  /\ rows = [i \in Environments |-> [v \in ResultVars |-> -1]]
  /\ client = [i \in Environments |-> [c \in Clients |-> "new"]]
  /\ result = [i \in Environments |-> NoResult]
  /\ errors = [i \in Environments |-> {}]
  /\ injected = [i \in Environments |-> {}]
  /\ unhandled = [i \in Environments |-> {}]
  /\ issued = [i \in Environments |-> {}]
  /\ started = [i \in Environments |-> NoSnap]
  /\ last = NoSummary
  /\ prev = NoSummary

\* the function as deployed, against an empty server or the created instance
Init ==
  /\ env = DeployedEnv
  /\ server \in {FreshServer, RdsServer}
  /\ InitHandler
  /\ faultsLeft = MaxFaults

\* the function as deployed, all of whose calls fail only as the server
\* decides
InitConcurrent ==
  /\ env = DeployedEnv
  /\ server \in {FreshServer, RdsServer}
  /\ InitHandler
  /\ faultsLeft = 0

\* the function with at most one environment parameter not set
InitEnv ==
  /\ env \in {DeployedEnv} \cup {EnvWithout(n) : n \in EnvNames}
  /\ server \in {FreshServer, RdsServer}
  /\ InitHandler
  /\ faultsLeft = MaxFaults

Next ==
  \E i \in Handlers :
    \/ Invoke(i)
    \/ GetSecret(i)
    \/ Connect(i)
    \/ Query_(i)
    \/ QueryIfAbsent_(i)
    \/ End(i)
    \/ EndNoAwait(i)
    \/ \E c \in Clients : EndCompletes(i, c)
    \/ ReturnSuccess(i)
    \/ Catch(i)

\* two environments, each serving one invocation, at the same time
NextConcurrent ==
  \E i \in Environments :
    \/ InvokeConcurrently(i)
    \/ GetSecret(i)
    \/ Connect(i)
    \/ Query_(i)
    \/ QueryIfAbsent_(i)
    \/ End(i)
    \/ EndNoAwait(i)
    \/ \E c \in Clients : EndCompletes(i, c)
    \/ ReturnSuccess(i)
    \/ Catch(i)

\* the handler, and the users of the database creating tables
NextTables ==
  \/ Next
  \/ \E n \in DOMAIN secretStore : CreateTable(secretStore[n].username)

\* the handler, and the secrets of the roles being replaced
NextStore ==
  \/ Next
  \/ \E n \in DOMAIN NewValue : \E f \in DOMAIN NewValue[n] : PutSecretValue(n, f)

Spec == Init /\ [][Next]_vars
SpecTables == Init /\ [][NextTables]_vars
SpecStore == Init /\ [][NextStore]_vars
SpecConcurrent == InitConcurrent /\ [][NextConcurrent]_vars
SpecEnv == InitEnv /\ [][Next]_vars

\* the handler without injected faults, and the secrets being replaced
SpecRotation == InitConcurrent /\ [][NextStore]_vars

\* the deployed function at rest, the listener serving requests
InitIdle ==
  /\ env = DeployedEnv
  /\ server = FreshServer
  /\ InitHandler
  /\ faultsLeft = 0

NextRouting ==
  \/ \E h \in Hosts : \E p \in Paths : Receive(h, p)
  \/ Evaluate
  \/ Respond

SpecRouting == InitIdle /\ [][NextRouting]_vars

\* the Martin service and the deployment of its configuration
NextMartin ==
  \/ DeployConfig
  \/ StartTask
  \/ \E c \in ContainerNames : StartContainer(c)
  \/ LoaderCopy
  \/ LoaderExit
  \/ MartinExit
  \/ StopTask

SpecMartin == InitIdle /\ [][NextMartin]_vars

\* the tile server calling roads_mvt
NextRoads == \E z \in Zooms : roads_mvt(z)

SpecRoads == InitIdle /\ [][NextRoads]_vars

\* the tile server calling buildings_mvt
NextBuildings == \E z \in Zooms : buildings_mvt(z)

SpecBuildings == InitIdle /\ [][NextBuildings]_vars

\* every call the handler awaits eventually returns or raises
Fairness == \A i \in Handlers : WF_vars(HandlerStep(i))
SpecLive == Init /\ [][Next]_vars /\ Fairness

====
